---------------------------- MODULE Spec2Model ----------------------------
(***************************************************************************)
(* Model of the Pay-i proxy service (src/services/payi-proxy): the three   *)
(* HTTP handlers /health, /analyze and /trail-finder, the two tracked      *)
(* model-call wrappers and the prompt builder.                             *)
(*                                                                         *)
(* Representation of Python values:                                        *)
(*   str            a sequence of atoms; an atom is one character, or a    *)
(*                  literal chunk of source text that the code never       *)
(*                  splits or inspects                                     *)
(*   Optional[T]    <<>> for None and <<v>> for a value v                  *)
(*   dict[str,str]  a function from keys to str                            *)
(*   list[T]        a sequence                                             *)
(***************************************************************************)
EXTENDS Integers, Sequences, FiniteSets, TLC

\* ------------------------------------------------------------------ bounds
MaxMediaLen == 2
MaxPayloadLen == 2
MaxBareLen == 2
MaxBlocks == 3
MaxTokens == 1
NumReqs == 2

\* ---------------------------------------------------------- Python values
None == <<>>
Some(v) == <<v>>
IsNone(o) == Len(o) = 0
Val(o) == o[1]

EmptyStr == <<>>
EmptyMap == [k \in {} |-> EmptyStr]

\* Sequences over S of length at most n.
SeqsUpTo(S, n) == UNION {[1..k -> S] : k \in 0..n}

\* Python truthiness of an Optional[str]: None and "" are falsy.
TruthyOptStr(o) == ~IsNone(o) /\ Len(Val(o)) > 0
\* Python truthiness of an Optional[int]: None and 0 are falsy.
TruthyOptInt(o) == ~IsNone(o) /\ Val(o) # 0
\* Python truthiness of an Optional[dict]: None and {} are falsy.
TruthyOptMap(o) == ~IsNone(o) /\ DOMAIN Val(o) # {}

Digit(d) ==
    CASE d = 0 -> "0" [] d = 1 -> "1" [] d = 2 -> "2" [] d = 3 -> "3"
      [] d = 4 -> "4" [] d = 5 -> "5" [] d = 6 -> "6" [] d = 7 -> "7"
      [] d = 8 -> "8" [] d = 9 -> "9"

RECURSIVE NatToStr(_)
NatToStr(n) ==
    IF n < 10 THEN <<Digit(n)>> ELSE NatToStr(n \div 10) \o <<Digit(n % 10)>>

\* str(i) for an int.
IntToStr(i) == IF i < 0 THEN <<"-">> \o NatToStr(-i) ELSE NatToStr(i)

\* str(b) for a bool.
BoolToStr(b) == IF b THEN <<"True">> ELSE <<"False">>

\* sep.join(parts)
RECURSIVE Join(_, _)
Join(sep, parts) ==
    IF Len(parts) = 0 THEN EmptyStr
    ELSE IF Len(parts) = 1 THEN parts[1]
    ELSE parts[1] \o sep \o Join(sep, Tail(parts))

\* s.startswith(prefix)
StartsWith(s, prefix) ==
    Len(s) >= Len(prefix) /\ SubSeq(s, 1, Len(prefix)) = prefix

\* Index of the first occurrence of atom c in s, 0 when there is none.
RECURSIVE FindFrom(_, _, _)
FindFrom(s, c, i) ==
    IF i > Len(s) THEN 0 ELSE IF s[i] = c THEN i ELSE FindFrom(s, c, i + 1)

\* s.split(c, 1): at most one split, at the first occurrence of c.
Split1(s, c) ==
    LET i == FindFrom(s, c, 1) IN
    IF i = 0 THEN <<s>>
    ELSE <<SubSeq(s, 1, i - 1), SubSeq(s, i + 1, Len(s))>>

\* s.split(c): split at every occurrence of c.
RECURSIVE SplitAll(_, _)
SplitAll(s, c) ==
    LET i == FindFrom(s, c, 1) IN
    IF i = 0 THEN <<s>>
    ELSE <<SubSeq(s, 1, i - 1)>> \o SplitAll(SubSeq(s, i + 1, Len(s)), c)


\* ------------------------------------------------ image analysis wrapper
DataPrefix == <<"d", "a", "t", "a", ":">>
DefaultMediaType == <<"image/jpeg">>

\* The media type the code would extract with the split at ";" left out.
MediaTypeOfNoParamSplit(head) == SplitAll(head, ":")[2]

\* parts[0].split(":")[1].split(";")[0], for parts[0] starting with "data:"
\* (so that split(":") has at least two elements).
MediaTypeOf(head) == SplitAll(SplitAll(head, ":")[2], ";")[1]

\* One iteration of the image loop: the media type and base64 data taken
\* from one payload.  parts[1] raises IndexError when a "data:" payload
\* holds no comma.
ParseImage(image_data) ==
    IF StartsWith(image_data, DataPrefix)
    THEN LET parts == Split1(image_data, ",") IN
         IF Len(parts) < 2
         THEN [ok |-> FALSE, media_type |-> EmptyStr, data |-> EmptyStr]
         ELSE [ok |-> TRUE, media_type |-> MediaTypeOf(parts[1]),
               data |-> parts[2]]
    ELSE [ok |-> TRUE, media_type |-> DefaultMediaType, data |-> image_data]

ImagePart(p) ==
    [type |-> "image",
     source |-> [type |-> "base64", media_type |-> p.media_type,
                 data |-> p.data]]

TextPart(prompt) == [type |-> "text", text |-> prompt]

\* The message content: one image part per image, then the text prompt.
\* Defined when every image parses.
BuildContent(images, prompt) ==
    [i \in 1..Len(images) |-> ImagePart(ParseImage(images[i]))]
        \o <<TextPart(prompt)>>

AllImagesParse(images) == \A i \in 1..Len(images) : ParseImage(images[i]).ok

\* The text of the first block of type "text", "" when there is none.
RECURSIVE FirstText(_)
FirstText(content) ==
    IF Len(content) = 0 THEN EmptyStr
    ELSE IF content[1].type = "text" THEN content[1].text
    ELSE FirstText(Tail(content))

\* ---------------------------------------------------- trail search wrapper
\* The loop of search_trails: text += block.text for every text block,
\* with the accumulator acc.
RECURSIVE AccumulateText(_, _)
AccumulateText(acc, content) ==
    IF Len(content) = 0 THEN acc
    ELSE AccumulateText(
             IF content[1].type = "text" THEN acc \o content[1].text ELSE acc,
             Tail(content))

\* search_trails with the loop of analyze_trail_images: the first text
\* block only.
AllTextFirstOnly(content) == FirstText(content)

AllText(content) == AccumulateText(EmptyStr, content)

\* ------------------------------------------------------------ use case id
\* The ids uuid.uuid4() can return.
UuidPool == {<<"uuid-1">>}
\* The ids the tracking library can expose in its context.
ContextIds == {<<"ctx-1">>}

\* A fallback that reuses nothing and generates nothing.
UseCaseIdNoFallback(exposed, uuid) ==
    IF IsNone(exposed) THEN EmptyStr ELSE Val(exposed)

\* A lookup that ignores the tracking context.
UseCaseIdAlwaysFresh(exposed, uuid) == uuid

\* ctx.get("use_case_id", str(uuid.uuid4())), for the id the context
\* exposes (None: it exposes none) and the uuid generated.
UseCaseId(exposed, uuid) == IF IsNone(exposed) THEN uuid ELSE Val(exposed)

\* ----------------------------------------------------------- prompt builder
TemplateLines ==
    << <<"Analyze these trail photos for off-road/overlanding conditions.">>,
       <<"Provide a JSON response with the following structure:">>,
       <<"{">>,
       <<"  \"difficulty\": 1-5,">>,
       <<"  \"trailType\": [\"dirt road\", \"rock crawl\", etc],">>,
       <<"  \"conditions\": [\"dry\", \"muddy\", etc],">>,
       <<"  \"hazards\": [\"steep grades\", \"loose rocks\", etc],">>,
       <<"  \"recommendations\": [\"air down tires\", etc],">>,
       <<"  \"bestFor\": [\"4x4 trucks\", \"ATVs\", etc],">>,
       <<"  \"summary\": \"Brief trail description\"">>,
       <<"}">> >>

NL == <<"\n">>
SP == <<" ">>

\* f"{year or ''}"
YearText(year) == IF TruthyOptInt(year) THEN IntToStr(Val(year)) ELSE EmptyStr

VehicleLines(vehicle_info) ==
    IF IsNone(vehicle_info) THEN <<>>
    ELSE LET v == Val(vehicle_info) IN
         << NL \o <<"Vehicle: ">> \o YearText(v.year) \o SP \o v.make
               \o SP \o v.model >>
         \o (IF Len(v.features) > 0
             THEN << <<"Features: ">> \o Join(<<",", " ">>, v.features) >>
             ELSE <<>>)

ContextLines(context) ==
    IF IsNone(context) THEN <<>>
    ELSE LET c == Val(context) IN
         (IF TruthyOptStr(c.trail_name)
          THEN << NL \o <<"Trail: ">> \o Val(c.trail_name) >> ELSE <<>>)
         \o (IF TruthyOptStr(c.trail_location)
             THEN << <<"Location: ">> \o Val(c.trail_location) >> ELSE <<>>)
         \o (IF TruthyOptStr(c.additional_notes)
             THEN << <<"Notes: ">> \o Val(c.additional_notes) >> ELSE <<>>)

build_analysis_prompt(request) ==
    Join(NL, TemplateLines \o VehicleLines(request.vehicle_info)
                 \o ContextLines(request.context))


\* ------------------------------------------------- /analyze: resolution
DefaultModel == <<"claude-sonnet-4-20250514">>

\* The prompt resolution with the fallback taken for every request.
ResolvePromptAlwaysBuilt(request) == build_analysis_prompt(request)

\* if request.prompt: prompt = request.prompt, else the built prompt.
ResolvePrompt(request) ==
    IF TruthyOptStr(request.prompt) THEN Val(request.prompt)
    ELSE build_analysis_prompt(request)

\* The use-case properties built from the request's context and vehicle.
DerivedUseCaseProperties(request) ==
    LET c == request.context
        v == request.vehicle_info
        name == IF ~IsNone(c) /\ TruthyOptStr(Val(c).trail_name)
                THEN "trail_name" :> Val(Val(c).trail_name) ELSE EmptyMap
        loc  == IF ~IsNone(c) /\ TruthyOptStr(Val(c).trail_location)
                THEN "trail_location" :> Val(Val(c).trail_location)
                ELSE EmptyMap
        veh  == IF ~IsNone(v)
                THEN ("vehicle_make" :> Val(v).make)
                     @@ ("vehicle_model" :> Val(v).model)
                     @@ (IF TruthyOptInt(Val(v).year)
                         THEN "vehicle_year" :> IntToStr(Val(Val(v).year))
                         ELSE EmptyMap)
                ELSE EmptyMap
    IN name @@ loc @@ veh

\* The resolution with the caller's map dropped.
ResolveUseCasePropertiesDerivedOnly(request) == DerivedUseCaseProperties(request)

ResolveUseCaseProperties(request) ==
    IF TruthyOptMap(request.use_case_properties)
    THEN Val(request.use_case_properties)
    ELSE DerivedUseCaseProperties(request)

\* The default request properties.
DerivedRequestProperties(request) ==
    ("image_count" :> IntToStr(Len(request.images)))
    @@ ("model_used" :> request.model)
    @@ ("has_vehicle_info" :> BoolToStr(~IsNone(request.vehicle_info)))
    @@ ("has_context" :> BoolToStr(~IsNone(request.context)))

ResolveRequestProperties(request) ==
    IF TruthyOptMap(request.request_properties)
    THEN Val(request.request_properties)
    ELSE DerivedRequestProperties(request)

\* request.use_case_name or <default>
ResolveUseCaseName(request, default) ==
    IF TruthyOptStr(request.use_case_name) THEN Val(request.use_case_name)
    ELSE default

\* The keyword arguments /analyze passes to analyze_trail_images.
AnalyzeCallArgs(request) ==
    [images |-> request.images,
     prompt |-> ResolvePrompt(request),
     model |-> request.model,
     requesting_user_id |-> request.user_id,
     use_case_name |-> ResolveUseCaseName(request, <<"trail_analysis">>),
     use_case_version |-> request.use_case_version,
     use_case_properties |-> Some(ResolveUseCaseProperties(request)),
     request_properties |-> Some(ResolveRequestProperties(request))]

\* The keyword arguments /trail-finder passes to search_trails.
TrailFinderCallArgs(request) ==
    [prompt |-> request.prompt,
     model |-> request.model,
     max_tokens |-> request.max_tokens,
     requesting_user_id |-> request.user_id,
     use_case_name |-> ResolveUseCaseName(request, <<"trail_finder">>),
     use_case_version |-> request.use_case_version,
     use_case_properties |-> request.use_case_properties,
     request_properties |-> request.request_properties]

AnalyzeMaxTokens == 2048
WebSearchMaxUses == 10

\* messages.create(...) of analyze_trail_images.
AnalyzeProviderRequest(args) ==
    [model |-> args.model, max_tokens |-> AnalyzeMaxTokens,
     tools |-> <<>>,
     content |-> BuildContent(args.images, args.prompt)]

\* messages.create(...) of search_trails.
SearchProviderRequest(args) ==
    [model |-> args.model, max_tokens |-> args.max_tokens,
     tools |-> << [type |-> "web_search_20250305", name |-> "web_search",
                   max_uses |-> WebSearchMaxUses] >>,
     content |-> args.prompt]

\* ------------------------------------------------------------- exceptions
\* An exception: its class and, for the classes that carry one, a status
\* code (None when the provider error carries none).
HTTPException(code) == [cls |-> "HTTPException", status_code |-> Some(code)]
IndexError == [cls |-> "IndexError", status_code |-> None]
\* status_code None also stands for an APIError with no status_code
\* attribute (a connection error): e.status_code then raises
\* AttributeError out of the except clause, and the server answers the
\* unhandled exception with 500 as well.
APIError(code) == [cls |-> "APIError", status_code |-> code]
OtherException == [cls |-> "Exception", status_code |-> None]

\* The handlers with the provider's status dropped.
ExceptAlways500(e) == 500

\* The status of the HTTPException the two except clauses of a handler
\* raise for exception e of the try block:
\*   except anthropic.APIError: status_code = e.status_code or 500
\*   except Exception:          status_code = 500
\* (HTTPException and IndexError are subclasses of Exception.)
ExceptStatus(e) ==
    IF e.cls = "APIError"
    THEN IF TruthyOptInt(e.status_code) THEN Val(e.status_code) ELSE 500
    ELSE 500

ErrorResponse(e) == [status |-> ExceptStatus(e), raised |-> e.cls]

\* AnalyzeResponse / TrailFinderResponse of a successful call.
SuccessResponse(text, usage, use_case_id) ==
    [status |-> 200, success |-> TRUE, text |-> text,
     usage |-> [input_tokens |-> usage.input_tokens,
                output_tokens |-> usage.output_tokens],
     use_case_id |-> use_case_id]


\* ----------------------------------------------------------------- inputs
Reqs == 1..NumReqs
\* The requests whose bodies are explored in full.
DeepReqs == {1}

ApiKeys == {EmptyStr, <<"key">>}
BaseUrls == {EmptyStr, <<"https://api.pay-i.com">>}

SettingsSet ==
    [payi_api_key : ApiKeys, payi_base_url : BaseUrls,
     anthropic_api_key : ApiKeys,
     service_name : {<<"trailblazer-payi-proxy">>}]

PngDataUri ==
    DataPrefix \o <<"image/png", ";", "b", "a", "s", "e", "6", "4", ",">>
        \o <<"A", "A", "A", "A">>
BareImage == <<"Q", "U", "J", "D">>
NoCommaDataUri == DataPrefix \o <<"image/png", ";", "b", "a", "s", "e", "6", "4">>

SampleImageLists == {<<>>, <<BareImage, PngDataUri>>, <<NoCommaDataUri>>}

Vehicle(year) ==
    [make |-> <<"Jeep">>, model |-> <<"Wrangler">>, year |-> year,
     features |-> << <<"lockers">>, <<"winch">> >>]

SampleVehicles ==
    {None, Some(Vehicle(None)), Some(Vehicle(Some(0))),
     Some(Vehicle(Some(2020)))}

SampleContexts ==
    {None,
     Some([trail_name |-> None, trail_location |-> None,
           additional_notes |-> None]),
     Some([trail_name |-> Some(<<"Hell's Revenge">>),
           trail_location |-> Some(<<"Moab">>),
           additional_notes |-> Some(EmptyStr)])}

SamplePrompts == {None, Some(EmptyStr), Some(<<"Rate this trail">>)}
SampleMaps == {None, Some(EmptyMap), Some("team" :> <<"overland">>)}

\* user id, use-case name and use-case version, varied together.
SampleAttribution ==
    {[user_id |-> None, use_case_name |-> None, use_case_version |-> None],
     [user_id |-> Some(<<"u1">>), use_case_name |-> Some(<<"custom_case">>),
      use_case_version |-> Some(2)]}

AnalyzeBodies ==
    {[images |-> im, model |-> DefaultModel, prompt |-> pr,
      vehicle_info |-> ve, context |-> co, user_id |-> at.user_id,
      use_case_name |-> at.use_case_name,
      use_case_version |-> at.use_case_version,
      use_case_properties |-> up, request_properties |-> rp] :
        im \in SampleImageLists, pr \in SamplePrompts, ve \in SampleVehicles,
        co \in SampleContexts, at \in SampleAttribution,
        up \in SampleMaps, rp \in SampleMaps}

TrailFinderBodies ==
    {[prompt |-> pr, model |-> DefaultModel, max_tokens |-> mt,
      user_id |-> at.user_id, use_case_name |-> at.use_case_name,
      use_case_version |-> at.use_case_version,
      use_case_properties |-> up, request_properties |-> rp] :
        pr \in {EmptyStr, <<"Find trails near Moab">>}, mt \in {4096, 16},
        at \in SampleAttribution, up \in SampleMaps, rp \in SampleMaps}

\* What the provider can answer.
TextBlock(t) == [type |-> "text", text |-> t]
ToolBlock(k) == [type |-> k]

SampleContents ==
    {<<>>,
     <<TextBlock(<<"A">>)>>,
     <<ToolBlock("server_tool_use"), TextBlock(<<"A">>),
       ToolBlock("web_search_tool_result"), TextBlock(<<"B">>)>>}

Usages == [input_tokens : 0..MaxTokens, output_tokens : 0..MaxTokens]

\* The exceptions messages.create can raise: an APIStatusError with the
\* provider's status, an APIError that carries no status (a connection
\* error), and anything else.
ProviderStatusCodes == {400, 429, 529}
ProviderErrors ==
    {APIError(Some(c)) : c \in ProviderStatusCodes}
        \cup {APIError(None), OtherException}

\* ------------------------------------------------------------------ state
VARIABLES
    settings,            \* the cached Settings instance (config.get_settings)
    started,             \* whether lifespan's startup has run
    anthropic_client,    \* the global client: "None" or "client"
    payi_instrumented,   \* whether payi_instrument was called
    pc,                  \* per request: "idle", "waiting" or "done"
    endpoint,            \* per request: the route it arrived on
    body,                \* per request: the validated request body
    call,                \* per request: the arguments passed to the wrapper
    ctx_id,              \* per request: the use_case_id the tracking context
                         \*   exposes during the call (None: it exposes none)
    sent,                \* per request: the messages.create request, if made
    provider_calls,      \* per request: the number of messages.create calls
    outcome,             \* per request: what messages.create did
    resp,                \* per request: the HTTP response
    arg,                 \* the input of a function examined on its own
    result               \* its output: None before it is applied

vars ==
    <<settings, started, anthropic_client, payi_instrumented, pc, endpoint,
      body, call, ctx_id, sent, provider_calls, outcome, resp, arg, result>>

procVars == <<settings, started, anthropic_client, payi_instrumented>>
reqVars ==
    <<pc, endpoint, body, call, ctx_id, sent, provider_calls, outcome, resp>>
fnVars == <<arg, result>>

InitProcess ==
    /\ settings \in SettingsSet
    /\ started = FALSE
    /\ anthropic_client = "None"
    /\ payi_instrumented = FALSE

InitRequests ==
    /\ pc = [r \in Reqs |-> "idle"]
    /\ endpoint = [r \in Reqs |-> "none"]
    /\ body = [r \in Reqs |-> None]
    /\ call = [r \in Reqs |-> None]
    /\ ctx_id = [r \in Reqs |-> None]
    /\ sent = [r \in Reqs |-> None]
    /\ provider_calls = [r \in Reqs |-> 0]
    /\ outcome = [r \in Reqs |-> [kind |-> "none"]]
    /\ resp = [r \in Reqs |-> None]

Init ==
    /\ InitProcess
    /\ InitRequests
    /\ arg = None
    /\ result = None

\* The handlers are coroutines that never await: the blocking
\* messages.create call runs on the event loop's thread, so while one
\* request is inside a handler no other handler runs.
LoopFree == \A r \in Reqs : pc[r] # "waiting"

\* ---------------------------------------------------------------- actions
\* lifespan, up to its yield.
Lifespan ==
    /\ ~started
    /\ started' = TRUE
    /\ payi_instrumented' =
           (Len(settings.payi_api_key) > 0 /\ Len(settings.payi_base_url) > 0)
    /\ anthropic_client' =
           IF Len(settings.anthropic_api_key) > 0 THEN "client" ELSE "None"
    /\ UNCHANGED <<settings, reqVars, fnVars>>

\* A health response with payi_enabled reporting the instrumentation.
HealthResponseInstrumented(s, instrumented) ==
    [status |-> 200, health |-> <<"healthy">>, service |-> s.service_name,
     payi_enabled |-> instrumented,
     anthropic_enabled |-> Len(s.anthropic_api_key) > 0]

\* HealthResponse(...) of health_check.
HealthResponse(s, instrumented) ==
    [status |-> 200, health |-> <<"healthy">>, service |-> s.service_name,
     payi_enabled |-> Len(s.payi_api_key) > 0,
     anthropic_enabled |-> Len(s.anthropic_api_key) > 0]

\* GET /health
health_check(r) ==
    /\ started /\ LoopFree /\ pc[r] = "idle"
    /\ pc' = [pc EXCEPT ![r] = "done"]
    /\ endpoint' = [endpoint EXCEPT ![r] = "health"]
    /\ resp' = [resp EXCEPT ![r] = Some(HealthResponse(settings, payi_instrumented))]
    /\ UNCHANGED <<procVars, body, call, ctx_id, sent, provider_calls,
                   outcome, fnVars>>

\* A handler up to the point where its wrapper either raises or blocks in
\* messages.create.  args are the wrapper's arguments, parses whether the
\* message content can be built, request the messages.create request.
EnterWrapper(r, route, request, args, parses, request_sent) ==
    /\ endpoint' = [endpoint EXCEPT ![r] = route]
    /\ body' = [body EXCEPT ![r] = Some(request)]
    /\ call' = [call EXCEPT ![r] = Some(args)]
    /\ IF anthropic_client = "None"
       THEN \* raise HTTPException(503), inside the handler's try block
            /\ pc' = [pc EXCEPT ![r] = "done"]
            /\ resp' = [resp EXCEPT ![r] = Some(ErrorResponse(HTTPException(503)))]
            /\ UNCHANGED <<ctx_id, sent, provider_calls>>
       ELSE \E id \in {None} \cup {Some(i) : i \in ContextIds} :
            /\ ctx_id' = [ctx_id EXCEPT ![r] = id]
            /\ IF ~parses
               THEN \* parts[1] raises IndexError before the call is made
                    /\ pc' = [pc EXCEPT ![r] = "done"]
                    /\ resp' = [resp EXCEPT ![r] = Some(ErrorResponse(IndexError))]
                    /\ UNCHANGED <<sent, provider_calls>>
               ELSE /\ pc' = [pc EXCEPT ![r] = "waiting"]
                    /\ sent' = [sent EXCEPT ![r] = Some(request_sent)]
                    /\ provider_calls' =
                           [provider_calls EXCEPT ![r] = @ + 1]
                    /\ UNCHANGED resp
    /\ UNCHANGED <<procVars, outcome, fnVars>>

\* A handler may start: startup is over, the event loop is free and the
\* request has arrived but not been handled.
CanStart(r) == started /\ LoopFree /\ pc[r] = "idle"

\* POST /analyze with a body of bodies, up to the provider call.
AnalyzeOf(r, bodies) ==
    /\ CanStart(r)
    /\ \E request \in bodies :
         LET args == AnalyzeCallArgs(request) IN
         EnterWrapper(r, "analyze", request, args,
                      AllImagesParse(args.images),
                      IF AllImagesParse(args.images)
                      THEN AnalyzeProviderRequest(args) ELSE None)

\* POST /trail-finder with a body of bodies, up to the provider call.
TrailFinderOf(r, bodies) ==
    /\ CanStart(r)
    /\ \E request \in bodies :
         LET args == TrailFinderCallArgs(request) IN
         EnterWrapper(r, "trail-finder", request, args, TRUE,
                      SearchProviderRequest(args))

\* POST /analyze, up to the provider call.
analyze(r) == AnalyzeOf(r, AnalyzeBodies)

\* POST /trail-finder, up to the provider call.
trail_finder(r) == TrailFinderOf(r, TrailFinderBodies)

\* The text a wrapper extracts from the provider's response.
ResponseText(route, content) ==
    IF route = "analyze" THEN FirstText(content) ELSE AllText(content)

\* messages.create returns: the rest of the wrapper and of the handler.
ProviderReturns(r) ==
    /\ pc[r] = "waiting"
    /\ \E content \in SampleContents, usage \in Usages, uuid \in UuidPool :
         /\ outcome' = [outcome EXCEPT ![r] =
                [kind |-> "returned", content |-> content, usage |-> usage]]
         /\ resp' = [resp EXCEPT ![r] =
                Some(SuccessResponse(ResponseText(endpoint[r], content),
                                     usage, UseCaseId(ctx_id[r], uuid)))]
    /\ pc' = [pc EXCEPT ![r] = "done"]
    /\ UNCHANGED <<procVars, endpoint, body, call, ctx_id, sent,
                   provider_calls, fnVars>>

\* A handler that calls messages.create once more after a failure.
ProviderRaisesRetry(r) ==
    /\ pc[r] = "waiting"
    /\ IF provider_calls[r] < 2
       THEN /\ provider_calls' = [provider_calls EXCEPT ![r] = @ + 1]
            /\ UNCHANGED <<pc, outcome, resp>>
       ELSE /\ \E e \in ProviderErrors :
                 /\ outcome' = [outcome EXCEPT ![r] =
                        [kind |-> "raised", exc |-> e]]
                 /\ resp' = [resp EXCEPT ![r] = Some(ErrorResponse(e))]
            /\ pc' = [pc EXCEPT ![r] = "done"]
            /\ UNCHANGED provider_calls
    /\ UNCHANGED <<procVars, endpoint, body, call, ctx_id, sent, fnVars>>

\* messages.create raises: the handler's except clauses.
ProviderRaises(r) ==
    /\ pc[r] = "waiting"
    /\ \E e \in ProviderErrors :
         /\ outcome' = [outcome EXCEPT ![r] = [kind |-> "raised", exc |-> e]]
         /\ resp' = [resp EXCEPT ![r] = Some(ErrorResponse(e))]
    /\ pc' = [pc EXCEPT ![r] = "done"]
    /\ UNCHANGED <<procVars, endpoint, body, call, ctx_id, sent,
                   provider_calls, fnVars>>

Next ==
    \/ Lifespan
    \/ \E r \in DeepReqs : health_check(r)
    \/ \E r \in DeepReqs : analyze(r)
    \/ \E r \in DeepReqs : trail_finder(r)
    \/ \E r \in DeepReqs : ProviderReturns(r)
    \/ \E r \in DeepReqs : ProviderRaises(r)

Spec == Init /\ [][Next]_vars

\* ------------------------------------------ several requests in a process
\* Every request of Reqs may arrive, each with one of a few bodies.
ConcAnalyzeBodies ==
    {q \in AnalyzeBodies :
        /\ q.images = <<BareImage, PngDataUri>>
        /\ q.prompt = Some(<<"Rate this trail">>)
        /\ IsNone(q.vehicle_info) /\ IsNone(q.context)
        /\ IsNone(q.user_id)
        /\ IsNone(q.use_case_properties) /\ IsNone(q.request_properties)}

ConcTrailFinderBodies ==
    {q \in TrailFinderBodies :
        /\ q.prompt # EmptyStr /\ q.max_tokens = 4096
        /\ IsNone(q.user_id)
        /\ IsNone(q.use_case_properties) /\ IsNone(q.request_properties)}

\* The handler of request r starts, on any route.
StartsHandler(r) ==
    \/ health_check(r)
    \/ AnalyzeOf(r, ConcAnalyzeBodies)
    \/ TrailFinderOf(r, ConcTrailFinderBodies)

NextConc ==
    \/ Lifespan
    \/ \E r \in Reqs : health_check(r)
    \/ \E r \in Reqs : AnalyzeOf(r, ConcAnalyzeBodies)
    \/ \E r \in Reqs : TrailFinderOf(r, ConcTrailFinderBodies)
    \/ \E r \in Reqs : ProviderReturns(r)
    \/ \E r \in Reqs : ProviderRaises(r)

SpecConc == Init /\ [][NextConc]_vars

\* --------------------------------------- functions examined on their own
DefaultSettings ==
    [payi_api_key |-> EmptyStr, payi_base_url |-> <<"https://api.pay-i.com">>,
     anthropic_api_key |-> EmptyStr,
     service_name |-> <<"trailblazer-payi-proxy">>]

\* The service before startup, with no request.
InitQuiet ==
    /\ settings = DefaultSettings
    /\ started = FALSE
    /\ anthropic_client = "None"
    /\ payi_instrumented = FALSE
    /\ InitRequests

\* Image payloads.  A media type is made of the characters a MIME type
\* name may hold, which exclude ":", ";" and ","; a payload is any string.
MediaAtoms == {"image/", "png"}
PayloadAtoms == {"A", ",", ":", ";"}
BareAtoms == {"d", "A", ":", ","}
Base64Marker == <<";", "b", "a", "s", "e", "6", "4", ",">>

MediaTypes == SeqsUpTo(MediaAtoms, MaxMediaLen)
Payloads == SeqsUpTo(PayloadAtoms, MaxPayloadLen)
DataUri(m, p) == DataPrefix \o m \o Base64Marker \o p

ImageInputs ==
    {DataUri(m, p) : m \in MediaTypes, p \in Payloads}
        \cup {DataPrefix \o p : p \in Payloads}
        \cup SeqsUpTo(BareAtoms, MaxBareLen)
        \cup {<<"d", "a", "t", "a">>, <<"D", "a", "t", "a", ":", "x", ",", "A">>,
              <<"d", "a", "t", "a", ";", "x", ",", "A">>}

InitParse == InitQuiet /\ arg \in {Some(i) : i \in ImageInputs} /\ result = None

\* One iteration of the image loop of analyze_trail_images.
ApplyParseImage ==
    /\ ~IsNone(arg) /\ IsNone(result)
    /\ LET p == ParseImage(Val(arg)) IN
       result' = Some(IF p.ok THEN [raised |-> FALSE, part |-> ImagePart(p)]
                      ELSE [raised |-> TRUE])
    /\ UNCHANGED <<arg, procVars, reqVars>>

SpecParse == InitParse /\ [][ApplyParseImage]_vars

\* Provider responses to search_trails: every sequence of up to MaxBlocks
\* content blocks.
ContentBlocks ==
    {TextBlock(<<"A">>), TextBlock(<<"B">>), TextBlock(EmptyStr),
     ToolBlock("server_tool_use"), ToolBlock("web_search_tool_result")}
ContentInputs == SeqsUpTo(ContentBlocks, MaxBlocks)

InitText == InitQuiet /\ arg \in {Some(c) : c \in ContentInputs} /\ result = None

\* The text extraction of search_trails.
ApplyAllText ==
    /\ ~IsNone(arg) /\ IsNone(result)
    /\ result' = Some(AllText(Val(arg)))
    /\ UNCHANGED <<arg, procVars, reqVars>>

SpecText == InitText /\ [][ApplyAllText]_vars

\* Requests to build_analysis_prompt, which reads vehicle_info and context.
PromptVehicles ==
    {None} \cup
    {Some([make |-> mk, model |-> <<"Wrangler">>, year |-> y, features |-> f]) :
        mk \in {EmptyStr, <<"Jeep">>},
        y \in {None, Some(0), Some(7), Some(2020)},
        f \in {<<>>, << <<"winch">> >>, << <<"lockers">>, <<"winch">> >>}}

OptTexts(t) == {None, Some(EmptyStr), Some(t)}
PromptContexts ==
    {None} \cup
    {Some(c) : c \in [trail_name : OptTexts(<<"Hell's Revenge">>),
                      trail_location : OptTexts(<<"Moab">>),
                      additional_notes : OptTexts(<<"after rain">>)]}

PromptInputs == [vehicle_info : PromptVehicles, context : PromptContexts]

InitPrompt == InitQuiet /\ arg \in {Some(q) : q \in PromptInputs} /\ result = None

ApplyBuildPrompt ==
    /\ ~IsNone(arg) /\ IsNone(result)
    /\ result' = Some(build_analysis_prompt(Val(arg)))
    /\ UNCHANGED <<arg, procVars, reqVars>>

SpecPrompt == InitPrompt /\ [][ApplyBuildPrompt]_vars

\* ================================================================ claims
Handled(r, route) == pc[r] = "done" /\ endpoint[r] = route
IsModelRoute(r) == endpoint[r] \in {"analyze", "trail-finder"}
Succeeded(r) == pc[r] = "done" /\ IsModelRoute(r) /\ Val(resp[r]).status = 200

\* needle occurs in s as a contiguous run.
Contains(s, needle) ==
    \E i \in 0..(Len(s) - Len(needle)) :
        SubSeq(s, i + 1, i + Len(needle)) = needle

\* C1: with the provider client uninitialized, /analyze and /trail-finder
\* answer 503 whatever the body.  (Violated: the wrapper's
\* HTTPException(503) is raised inside the handler's try block and caught
\* by "except Exception", which answers 500.)
C1_Uninitialized503 ==
    \A r \in Reqs :
        (pc[r] = "done" /\ IsModelRoute(r) /\ anthropic_client = "None")
            => Val(resp[r]).status = 503

\* C2: when the provider call fails, the HTTP status is the provider's
\* status code when the error is an API error carrying one, and 500 when it
\* carries none or is any other exception.
C2_ErrorStatusMirrorsProvider ==
    \A r \in Reqs :
        (pc[r] = "done" /\ outcome[r].kind = "raised")
            => LET e == outcome[r].exc
                   status == Val(resp[r]).status
               IN /\ (e.cls = "APIError" /\ ~IsNone(e.status_code))
                        => status = Val(e.status_code)
                  /\ (e.cls = "APIError" /\ IsNone(e.status_code))
                        => status = 500
                  /\ e.cls # "APIError" => status = 500

C2_Witness ==
    \E r \in Reqs :
        /\ pc[r] = "done" /\ endpoint[r] = "analyze"
        /\ outcome[r].kind = "raised"
        /\ outcome[r].exc = APIError(Some(429))
        /\ Val(resp[r]).status = 429

\* C3, as claimed: every valid AnalyzeRequest body gets a 200 response with
\* non-negative token counts and a non-empty use_case_id.
C3_AlwaysOk ==
    \A r \in Reqs :
        Handled(r, "analyze")
            => /\ Val(resp[r]).status = 200
               /\ Val(resp[r]).usage.input_tokens >= 0
               /\ Val(resp[r]).usage.output_tokens >= 0
               /\ Len(Val(resp[r]).use_case_id) > 0

\* C3, amended: /analyze answers 200 exactly when the provider call was
\* made and returned a response (the client is initialized and every
\* "data:" image holds a comma), for any number of images including zero;
\* a 200 response carries non-negative token counts, those of the
\* provider's usage block, and a non-empty use_case_id.
C3_OkWhenProviderReturns ==
    \A r \in Reqs :
        Handled(r, "analyze")
            => LET rs == Val(resp[r]) IN
               /\ rs.status = 200 <=> outcome[r].kind = "returned"
               /\ outcome[r].kind # "none"
                    <=> (anthropic_client # "None"
                         /\ \A i \in 1..Len(Val(body[r]).images) :
                              LET im == Val(body[r]).images[i] IN
                              StartsWith(im, DataPrefix)
                                  => FindFrom(im, ",", 1) > 0)
               /\ rs.status = 200
                    => /\ rs.usage.input_tokens >= 0
                       /\ rs.usage.output_tokens >= 0
                       /\ rs.usage.input_tokens = outcome[r].usage.input_tokens
                       /\ rs.usage.output_tokens = outcome[r].usage.output_tokens
                       /\ Len(rs.use_case_id) > 0

\* A request with no image, answered 200 with a generated use_case_id.
C3_Witness ==
    \E r \in Reqs :
        /\ Handled(r, "analyze")
        /\ Len(Val(body[r]).images) = 0
        /\ IsNone(ctx_id[r])
        /\ Val(resp[r]).status = 200
        /\ Len(Val(resp[r]).use_case_id) > 0

\* C4, as claimed: in every successful wrapper call the returned
\* use_case_id is the one visible in the tracking context during the call.
C4_IdIsContextId ==
    \A r \in Reqs :
        Succeeded(r) => ctx_id[r] = Some(Val(resp[r]).use_case_id)

\* C4, amended: in every successful wrapper call, when the tracking
\* context exposes a use_case_id the returned id equals it; when it exposes
\* none the returned id is a freshly generated one.
C4_IdIsContextIdOrFresh ==
    \A r \in Reqs :
        Succeeded(r)
            => IF IsNone(ctx_id[r])
               THEN Val(resp[r]).use_case_id \in UuidPool
               ELSE Val(resp[r]).use_case_id = Val(ctx_id[r])

C4_Witness ==
    \E r \in Reqs :
        /\ Succeeded(r) /\ endpoint[r] = "trail-finder"
        /\ ~IsNone(ctx_id[r])
        /\ Val(resp[r]).use_case_id = Val(ctx_id[r])

\* The texts of the text-typed parts, in response order, joined.
RECURSIVE ConcatTexts(_)
ConcatTexts(blocks) ==
    IF Len(blocks) = 0 THEN EmptyStr
    ELSE blocks[1].text \o ConcatTexts(Tail(blocks))

IsTextBlock(b) == b.type = "text"

\* C5: the text search_trails returns is the concatenation, in response
\* order, of the text of every content part of type "text"; parts of other
\* types add nothing, and with no text part it is the empty string.
C5_AllTextParts ==
    ~IsNone(result)
        => /\ Val(result) = ConcatTexts(SelectSeq(Val(arg), IsTextBlock))
           /\ (\A i \in 1..Len(Val(arg)) : ~IsTextBlock(Val(arg)[i]))
                  => Val(result) = EmptyStr

\* The scenario of the specification: two text parts "A" and "B", with
\* search blocks around them, give "AB".
C5_Witness ==
    /\ ~IsNone(result)
    /\ Val(arg) = <<ToolBlock("server_tool_use"), TextBlock(<<"A">>),
                    TextBlock(<<"B">>)>>
    /\ Val(result) = <<"A", "B">>

\* C6: for a payload data:<media-type>;base64,<payload> the image part has
\* media_type <media-type> and data <payload>; for a payload that does not
\* start with "data:" it has media_type "image/jpeg" and the whole string
\* as data.
C6_DataUriParsing ==
    ~IsNone(result)
        => /\ \A m \in MediaTypes, p \in Payloads :
                Val(arg) = DataUri(m, p)
                    => /\ ~Val(result).raised
                       /\ Val(result).part.type = "image"
                       /\ Val(result).part.source.type = "base64"
                       /\ Val(result).part.source.media_type = m
                       /\ Val(result).part.source.data = p
           /\ ~StartsWith(Val(arg), DataPrefix)
                => /\ ~Val(result).raised
                   /\ Val(result).part.source.media_type = <<"image/jpeg">>
                   /\ Val(result).part.source.data = Val(arg)

\* A data URI whose payload itself holds a comma and a semicolon.
C6_Witness ==
    /\ ~IsNone(result)
    /\ Val(arg) = DataUri(<<"image/", "png">>, <<",", ";">>)
    /\ Val(result).part.source.media_type = <<"image/", "png">>
    /\ Val(result).part.source.data = <<",", ";">>

\* C7: build_analysis_prompt gives the template alone for a request with
\* no vehicle info and no context, and for vehicle info with a year its
\* output contains "<year> <make> <model>".  (Violated for year 0, which
\* f"{year or ''}" prints as the empty string.)
C7_PromptBuilder ==
    ~IsNone(result)
        => LET q == Val(arg) IN
           /\ (IsNone(q.vehicle_info) /\ IsNone(q.context))
                => Val(result) = Join(<<"\n">>, TemplateLines)
           /\ (~IsNone(q.vehicle_info) /\ ~IsNone(Val(q.vehicle_info).year))
                => LET v == Val(q.vehicle_info) IN
                   Contains(Val(result),
                            IntToStr(Val(v.year)) \o <<" ">> \o v.make
                                \o <<" ">> \o v.model)

\* C8: GET /health answers 200 in every configuration, with payi_enabled
\* true exactly when the Pay-i API key is non-empty and anthropic_enabled
\* true exactly when the provider API key is non-empty.
C8_HealthFlags ==
    \A r \in Reqs :
        Handled(r, "health")
            => /\ Val(resp[r]).status = 200
               /\ Val(resp[r]).payi_enabled <=> settings.payi_api_key # EmptyStr
               /\ Val(resp[r]).anthropic_enabled
                    <=> settings.anthropic_api_key # EmptyStr

\* A Pay-i key with no base URL: not instrumented, yet reported enabled.
C8_Witness ==
    \E r \in Reqs :
        /\ Handled(r, "health")
        /\ settings.payi_api_key # EmptyStr
        /\ settings.payi_base_url = EmptyStr
        /\ ~payi_instrumented
        /\ Val(resp[r]).payi_enabled

\* The request of r was passed to analyze_trail_images.
PassedToWrapper(r) == endpoint[r] = "analyze" /\ ~IsNone(call[r])

\* C9, as claimed: the prompt passed to the wrapper is the caller's prompt
\* whenever the request carries one, and the built prompt only when it
\* carries none.
C9_PromptVerbatimIfPresent ==
    \A r \in Reqs :
        PassedToWrapper(r)
            => LET q == Val(body[r]) IN
               IF ~IsNone(q.prompt)
               THEN Val(call[r]).prompt = Val(q.prompt)
               ELSE Val(call[r]).prompt = build_analysis_prompt(q)

\* C9, amended: the prompt passed to the wrapper is the caller's prompt,
\* unchanged, whenever the request carries a non-empty prompt; when the
\* request carries no prompt or an empty one it is the output of
\* build_analysis_prompt for that request.
C9_PromptVerbatimIfNonEmpty ==
    \A r \in Reqs :
        PassedToWrapper(r)
            => LET q == Val(body[r]) IN
               IF ~IsNone(q.prompt) /\ Val(q.prompt) # EmptyStr
               THEN Val(call[r]).prompt = Val(q.prompt)
               ELSE Val(call[r]).prompt = build_analysis_prompt(q)

\* A caller's prompt passed on although the request has vehicle info and
\* context to build one from; it is also the text part sent to the provider.
C9_Witness ==
    \E r \in Reqs :
        /\ PassedToWrapper(r) /\ pc[r] = "waiting"
        /\ Val(body[r]).prompt = Some(<<"Rate this trail">>)
        /\ ~IsNone(Val(body[r]).vehicle_info)
        /\ ~IsNone(Val(body[r]).context)
        /\ Val(call[r]).prompt = <<"Rate this trail">>
        /\ LET content == Val(sent[r]).content IN
           content[Len(content)] = TextPart(<<"Rate this trail">>)

UseCaseKeys ==
    {"trail_name", "trail_location", "vehicle_make", "vehicle_model",
     "vehicle_year"}

\* m holds the use-case properties derived from request q: the trail name
\* and location that are present and non-empty, the vehicle's make and
\* model, and its year when present and not 0.
IsDerivedUseCaseProperties(m, q) ==
    LET c == q.context
        v == q.vehicle_info
        has(o) == ~IsNone(o) /\ Val(o) # EmptyStr
    IN /\ DOMAIN m \subseteq UseCaseKeys
       /\ "trail_name" \in DOMAIN m <=> (~IsNone(c) /\ has(Val(c).trail_name))
       /\ "trail_name" \in DOMAIN m => m["trail_name"] = Val(Val(c).trail_name)
       /\ "trail_location" \in DOMAIN m
            <=> (~IsNone(c) /\ has(Val(c).trail_location))
       /\ "trail_location" \in DOMAIN m
            => m["trail_location"] = Val(Val(c).trail_location)
       /\ "vehicle_make" \in DOMAIN m <=> ~IsNone(v)
       /\ "vehicle_model" \in DOMAIN m <=> ~IsNone(v)
       /\ ~IsNone(v) => /\ m["vehicle_make"] = Val(v).make
                        /\ m["vehicle_model"] = Val(v).model
       /\ "vehicle_year" \in DOMAIN m
            <=> (~IsNone(v) /\ ~IsNone(Val(v).year) /\ Val(Val(v).year) # 0)
       /\ "vehicle_year" \in DOMAIN m
            => m["vehicle_year"] = IntToStr(Val(Val(v).year))

\* m holds the request properties derived from request q.
IsDerivedRequestProperties(m, q) ==
    /\ DOMAIN m = {"image_count", "model_used", "has_vehicle_info", "has_context"}
    /\ m["image_count"] = IntToStr(Len(q.images))
    /\ m["model_used"] = q.model
    /\ m["has_vehicle_info"]
         = (IF IsNone(q.vehicle_info) THEN <<"False">> ELSE <<"True">>)
    /\ m["has_context"] = (IF IsNone(q.context) THEN <<"False">> ELSE <<"True">>)

\* C10, as claimed: each property map passed to the wrapper is the
\* caller's map whenever the request carries one, and is derived from the
\* request only when the map is absent.
C10_MapsVerbatimIfPresent ==
    \A r \in Reqs :
        PassedToWrapper(r)
            => LET q == Val(body[r])
                   ucp == Val(Val(call[r]).use_case_properties)
                   rqp == Val(Val(call[r]).request_properties)
               IN /\ IF ~IsNone(q.use_case_properties)
                     THEN ucp = Val(q.use_case_properties)
                     ELSE IsDerivedUseCaseProperties(ucp, q)
                  /\ IF ~IsNone(q.request_properties)
                     THEN rqp = Val(q.request_properties)
                     ELSE IsDerivedRequestProperties(rqp, q)

\* C10, amended: each property map passed to the wrapper is the caller's
\* map whenever the request carries a non-empty one; when a map is absent
\* or empty it is derived from the request (use-case properties from the
\* non-empty trail name and location, the vehicle's make and model and its
\* non-zero year; request properties from image count, model,
\* has_vehicle_info and has_context).
C10_MapsVerbatimIfNonEmpty ==
    \A r \in Reqs :
        PassedToWrapper(r)
            => LET q == Val(body[r])
                   ucp == Val(Val(call[r]).use_case_properties)
                   rqp == Val(Val(call[r]).request_properties)
                   given(o) == ~IsNone(o) /\ DOMAIN Val(o) # {}
               IN /\ IF given(q.use_case_properties)
                     THEN ucp = Val(q.use_case_properties)
                     ELSE IsDerivedUseCaseProperties(ucp, q)
                  /\ IF given(q.request_properties)
                     THEN rqp = Val(q.request_properties)
                     ELSE IsDerivedRequestProperties(rqp, q)

\* The caller's use-case properties passed on, and the request properties
\* derived, for a request with a vehicle and two images.
C10_Witness ==
    \E r \in Reqs :
        /\ PassedToWrapper(r) /\ pc[r] = "waiting"
        /\ Val(body[r]).use_case_properties = Some("team" :> <<"overland">>)
        /\ IsNone(Val(body[r]).request_properties)
        /\ ~IsNone(Val(body[r]).vehicle_info)
        /\ Len(Val(body[r]).images) = 2
        /\ Val(Val(call[r]).use_case_properties) = ("team" :> <<"overland">>)
        /\ Val(Val(call[r]).request_properties)["image_count"] = <<"2">>
        /\ Val(Val(call[r]).request_properties)["has_vehicle_info"] = <<"True">>

\* C11: a request to /analyze or /trail-finder makes at most one call to
\* the provider; when that call fails the request is over, with that one
\* call made and an HTTP error response that carries no success flag, text,
\* usage or use_case_id.
C11_OneCallNoRetry ==
    \A r \in Reqs :
        /\ provider_calls[r] <= 1
        /\ provider_calls[r] = 1 <=> ~IsNone(sent[r])
        /\ outcome[r].kind = "raised"
             => /\ pc[r] = "done"
                /\ IsModelRoute(r)
                /\ provider_calls[r] = 1
                /\ Val(resp[r]).status >= 400
                /\ DOMAIN Val(resp[r]) = {"status", "raised"}

\* A /trail-finder request whose single provider call failed without a
\* status, answered 500.
C11_Witness ==
    \E r \in Reqs :
        /\ Handled(r, "trail-finder")
        /\ outcome[r] = [kind |-> "raised", exc |-> APIError(None)]
        /\ provider_calls[r] = 1
        /\ Val(resp[r]).status = 500

\* Some request is blocked in messages.create.
SomeWaiting == \E r \in Reqs : pc[r] = "waiting"

\* C12: while a request waits on its provider call, every other inbound
\* request can be started in the same process, and the settings snapshot
\* and the provider client handle are not modified.  (Violated: the
\* handlers are coroutines that call the synchronous client without an
\* await, so the wait blocks the event loop and no other handler starts
\* until the call is over.)
C12_OthersProgressDuringWait ==
    [][SomeWaiting
         => /\ \A o \in Reqs : pc[o] = "idle" => ENABLED StartsHandler(o)
            /\ UNCHANGED <<settings, anthropic_client>>]_vars

=============================================================================
